---- MODULE Spec2Model ----
(***************************************************************************)
(* Robust random cut tree (rrcf.py): the pointer graph of Branch and Leaf  *)
(* objects, the tree's root and leaves dict, and the public mutations      *)
(* insert_point and forget_point, each modelled as one atomic call that    *)
(* ends either normally or with the Python exception the code raises,      *)
(* keeping whatever it had already written to the heap before raising.     *)
(*                                                                         *)
(* Coordinates are integers on a grid of step Scale; the draws of          *)
(* np.random.uniform fall on the integers in between, so a draw can lie    *)
(* strictly between two data coordinates or tie with one.                  *)
(***************************************************************************)
EXTENDS Integers, Sequences, FiniteSets, TLC

\* ------------------------------------------------------------------ bounds
NDim == 1            \* X.shape[1]
MaxCoord == 2        \* data coordinates are Scale * (0..MaxCoord)
Scale == 2           \* grid steps between two neighbouring data coordinates
MaxIndex == 2        \* leaf indices are 0..MaxIndex
MaxInit == 3         \* the constructor receives 2..MaxInit points
MaxCalls == 3        \* insert_point / forget_point calls made after construction
MaxInserts == 2      \* insert_point calls among them

\* A stream of calls on the tree built from the points 0, Scale, 2 * Scale, ...:
\* new points get fresh indices, old ones are forgotten.
Pt(c) == [j \in 1..NDim |-> Scale * c]
WarmupData == [i \in 0..(MaxInit - 1) |-> Pt(i)]
Warmup ==
    << [op |-> "forget_point", point |-> Pt(0), index |-> 0],
       [op |-> "insert_point", point |-> Pt(MaxInit - 1), index |-> MaxIndex + 1],
       [op |-> "insert_point", point |-> Pt(MaxInit - 1), index |-> MaxIndex + 2],
       [op |-> "insert_point", point |-> Pt(1), index |-> 0],
       [op |-> "forget_point", point |-> Pt(0), index |-> 1],
       [op |-> "forget_point", point |-> Pt(0), index |-> 2],
       [op |-> "insert_point", point |-> Pt(MaxInit - 1), index |-> 1],
       [op |-> "forget_point", point |-> Pt(0), index |-> MaxIndex + 1] >>

\* Heap cells: 2n - 1 objects built from n points, two more per insert_point,
\* those of Warmup and those of the explored calls.
WarmupInserts == Cardinality({k \in DOMAIN Warmup : Warmup[k].op = "insert_point"})
MaxNodes == 2 * MaxInit - 1 + 2 * (MaxInserts + WarmupInserts)

None == 0
NodeIds == 1..MaxNodes
Dims == 0..(NDim - 1)
Coords == {Scale * c : c \in 0..MaxCoord}
Points == [1..NDim -> Coords]
Indices == 0..MaxIndex
ZeroPoint == [j \in 1..NDim |-> 0]

SetMin(S) == CHOOSE m \in S : \A y \in S : m <= y
SetMax(S) == CHOOSE m \in S : \A y \in S : m >= y

\* ------------------------------------------------------------ node objects
FreeNode ==
    [kind |-> "Free", l |-> None, r |-> None, u |-> None, n |-> 0, d |-> 0,
     q |-> 0, p |-> 0, x |-> ZeroPoint, i |-> 0]

Branch(q, p, l, r, u, n) ==
    [kind |-> "Branch", l |-> l, r |-> r, u |-> u, n |-> n, d |-> 0,
     q |-> q, p |-> p, x |-> ZeroPoint, i |-> 0]

Leaf(i, d, u, x) ==
    [kind |-> "Leaf", l |-> None, r |-> None, u |-> u, n |-> 1, d |-> d,
     q |-> 0, p |-> 0, x |-> x, i |-> i]

EmptyHeap == [k \in NodeIds |-> FreeNode]
FreeIds(h) == {k \in NodeIds : h[k].kind = "Free"}
Alloc(h) == SetMin(FreeIds(h))

\* --------------------------------------------------------------- traversal
\* traverse(node, op): the leaves op is called on, in call order.
RECURSIVE traverse(_, _)
traverse(h, node) ==
    IF h[node].kind = "Branch"
    THEN (IF h[node].l # None THEN traverse(h, h[node].l) ELSE <<>>)
         \o (IF h[node].r # None THEN traverse(h, h[node].r) ELSE <<>>)
    ELSE <<node>>

\* traverse(node, op=self._increment_depth, inc=inc)
RECURSIVE increment_depth(_, _, _)
increment_depth(h, visited, inc) ==
    IF visited = <<>> THEN h
    ELSE increment_depth([h EXCEPT ![Head(visited)].d = @ + inc], Tail(visited), inc)

SeqRange(s) == {s[k] : k \in 1..Len(s)}

\* get_bbox(branch): per-dimension minimum and maximum of the leaves below.
get_bbox(h, node) ==
    LET below == SeqRange(traverse(h, node)) IN
    [lo |-> [j \in 1..NDim |-> SetMin({h[k].x[j] : k \in below})],
     hi |-> [j \in 1..NDim |-> SetMax({h[k].x[j] : k \in below})]]

\* ---------------------------------------------------- _insert_point_cut
RECURSIVE SumTo(_, _)
SumTo(f, j) == IF j = 0 THEN 0 ELSE f[j] + SumTo(f, j - 1)

bbox_hat(point, bbox) ==
    [lo |-> [j \in 1..NDim |-> IF bbox.lo[j] <= point[j] THEN bbox.lo[j] ELSE point[j]],
     hi |-> [j \in 1..NDim |-> IF bbox.hi[j] >= point[j] THEN bbox.hi[j] ELSE point[j]]]

b_span(point, bbox) ==
    LET bh == bbox_hat(point, bbox) IN [j \in 1..NDim |-> bh.hi[j] - bh.lo[j]]

b_range(point, bbox) == SumTo(b_span(point, bbox), NDim)

\* The smallest power of two that is >= x (x >= 1): the binade of x decides
\* how float64 addition rounds next to it.
RECURSIVE NextPow2(_)
NextPow2(x) == IF x <= 1 THEN 1 ELSE 2 * NextPow2((x + 1) \div 2)

\* np.random.uniform(0, b_range) is 0 + b_range * u with u of [0, 1): a value of
\* [0, b_range), 0 when b_range = 0.  The draws 0..(range - 1) are the grid
\* values; the draw range stands for the largest float below b_range, which
\* u = 1 - 2^-53 gives.
UniformDraws(range) == IF range = 0 THEN {0} ELSE 0..range

\* bbox_hat[0, q] + span_sum[q] - r in float64 for r the largest float below
\* span_sum[q]: the difference to lo is half a unit in the last place of lo or
\* less, and the sum rounds to lo itself, when a power of two lies in
\* [span_sum[q], lo]; otherwise the cut stays strictly above lo.
RoundsToLow(lo, width) == width > 0 /\ NextPow2(width) <= lo

\* The cut for the draw r: the first dimension whose cumulative span reaches r.
\* For the draw just below b_range the cut is lo where the sum rounds, and the
\* grid's smallest step above lo where it does not.
insert_point_cut(point, bbox, r) ==
    LET bh == bbox_hat(point, bbox)
        span == b_span(point, bbox)
        span_sum == [j \in 1..NDim |-> SumTo(span, j)]
        hit == {j \in 1..NDim : span_sum[j] >= r}
        top == r > 0 /\ r = b_range(point, bbox)
    IN  IF hit = {} THEN [ok |-> FALSE, q |-> 0, p |-> 0]
        ELSE LET j == SetMin(hit) IN
             [ok |-> TRUE, q |-> j - 1,
              p |-> IF top /\ ~RoundsToLow(bh.lo[j], span_sum[j])
                    THEN bh.lo[j] + 1
                    ELSE bh.lo[j] + span_sum[j] - r]

\* ------------------------------------------------------------ the tree
\* A tree value: the heap of node objects, self.root, self.leaves, and the
\* exception the last call ended with ("none" when it returned normally).
Tree(h, root, leaves, err) == [heap |-> h, root |-> root, leaves |-> leaves, err |-> err]

LeafValues(leaves) == {leaves[k] : k \in DOMAIN leaves}

\* self.leaves.pop(index)
Pop(leaves, index) == [k \in (DOMAIN leaves) \ {index} |-> leaves[k]]

\* self.leaves[index] = leaf
Put(leaves, index, leaf) ==
    [k \in (DOMAIN leaves) \cup {index} |-> IF k = index THEN leaf ELSE leaves[k]]

\* for _ in range(steps): if parent: parent.n += inc; parent = parent.u; else: break
RECURSIVE update_counts(_, _, _, _)
update_counts(h, parent, steps, inc) ==
    IF steps <= 0 \/ parent = None THEN h
    ELSE update_counts([h EXCEPT ![parent].n = @ + inc], h[parent].u, steps - 1, inc)

\* ---------------------------------------------------------- insert_point
\* The descent loop of insert_point: every way it can end, one per sequence of
\* random draws.  "splice": a break with the position chosen; "exhausted": the
\* range ran out (or was empty) with no break; "error": _insert_point_cut raised.
\* passed records the cuts of the passes that did not break: the node visited
\* and the (q, p) drawn there.
RECURSIVE insert_loop(_, _, _, _, _, _, _)
insert_loop(h, point, node, parent, side, depth, iters) ==
    IF iters <= 0
    THEN {[status |-> "exhausted", node |-> node, parent |-> parent, side |-> side,
           depth |-> depth, q |-> 0, p |-> 0, where |-> "none", passed |-> {}]}
    ELSE
      LET bbox == get_bbox(h, node) IN
      UNION {
        LET c == insert_point_cut(point, bbox, r) IN
        IF ~c.ok
        THEN {[status |-> "error", node |-> node, parent |-> parent, side |-> side,
               depth |-> depth, q |-> 0, p |-> 0, where |-> "none", passed |-> {}]}
        ELSE IF c.p <= bbox.lo[c.q + 1]
        THEN {[status |-> "splice", node |-> node, parent |-> parent, side |-> side,
               depth |-> depth, q |-> c.q, p |-> c.p, where |-> "l", passed |-> {}]}
        ELSE IF c.p >= bbox.hi[c.q + 1]
        THEN {[status |-> "splice", node |-> node, parent |-> parent, side |-> side,
               depth |-> depth, q |-> c.q, p |-> c.p, where |-> "r", passed |-> {}]}
        ELSE { [o EXCEPT !.passed = @ \cup {[node |-> node, q |-> c.q, p |-> c.p]}] :
               o \in IF point[h[node].q + 1] <= h[node].p
                     THEN insert_loop(h, point, h[node].l, node, "l", depth + 1, iters - 1)
                     ELSE insert_loop(h, point, h[node].r, node, "r", depth + 1, iters - 1) }
        : r \in UniformDraws(b_range(point, bbox)) }

\* The outcomes of the loop for a call insert_point(point, ...) on tree t.
insert_outcomes(t, point) ==
    IF DOMAIN t.leaves = {}
    THEN \* max() of an empty list
         {[status |-> "error", node |-> t.root, parent |-> None, side |-> "unset",
           depth |-> 0, q |-> 0, p |-> 0, where |-> "none", passed |-> {}]}
    ELSE LET maxdepth == SetMax({t.heap[k].d : k \in LeafValues(t.leaves)}) IN
         insert_loop(t.heap, point, t.root, t.heap[t.root].u, "unset", 0, maxdepth + 1)

\* setattr(parent, side, branch)
SetChild(h, parent, side, child) ==
    IF side = "l" THEN [h EXCEPT ![parent].l = child] ELSE [h EXCEPT ![parent].r = child]

\* insert_point(point, index) when its loop ended as o.
insert_point(t, point, index, o) ==
    IF o.status = "error" THEN Tree(t.heap, t.root, t.leaves, "ValueError")
    ELSE IF o.status = "exhausted"
    THEN \* node.u = branch with branch never assigned
         Tree(t.heap, t.root, t.leaves, "UnboundLocalError")
    ELSE
      LET leaf == Alloc(t.heap)
          h1 == [t.heap EXCEPT ![leaf] = Leaf(index, o.depth, None, point)]
          branch == Alloc(h1)
          h2 == [h1 EXCEPT ![branch] =
                    IF o.where = "l"
                    THEN Branch(o.q, o.p, leaf, o.node, None, h1[leaf].n + h1[o.node].n)
                    ELSE Branch(o.q, o.p, o.node, leaf, None, h1[leaf].n + h1[o.node].n)]
          h3 == [h2 EXCEPT ![o.node].u = branch, ![leaf].u = branch, ![branch].u = o.parent]
      IN  IF o.parent # None /\ o.side = "unset"
          THEN \* setattr(parent, side, branch) with side never assigned
               Tree(h3, t.root, t.leaves, "UnboundLocalError")
          ELSE
            LET h4 == IF o.parent # None THEN SetChild(h3, o.parent, o.side, branch) ELSE h3
                h5 == increment_depth(h4, traverse(h4, branch), 1)
                h6 == update_counts(h5, o.parent, h5[leaf].d, 1)
            IN  Tree(h6, t.root, Put(t.leaves, index, leaf), "none")

\* ---------------------------------------------------------- forget_point
\* forget_point from "Find parent and grandparent" on, the dict entry already popped.
forget_leaf(h, root, leaves, leaf) ==
    LET parent == h[leaf].u IN
    IF parent = None
    THEN \* grandparent = parent.u on None
         Tree(h, root, leaves, "AttributeError")
    ELSE
      LET grandparent == h[parent].u
          sibling == IF leaf = h[parent].l THEN h[parent].r ELSE h[parent].l
          h1 == [h EXCEPT ![sibling].u = grandparent]
      IN  IF grandparent = None
          THEN \* grandparent.l on None
               Tree(h1, root, leaves, "AttributeError")
          ELSE
            LET h2 == IF parent = h1[grandparent].l
                      THEN [h1 EXCEPT ![grandparent].l = sibling]
                      ELSE [h1 EXCEPT ![grandparent].r = sibling]
                h3 == increment_depth(h2, traverse(h2, grandparent), -1)
                h4 == update_counts(h3, grandparent, h3[leaf].d, -1)
            IN  Tree(h4, root, leaves, "none")

\* forget_point with self.leaves.pop(leaf, None) in place of the guarded pop: an
\* unknown index goes on with leaf = None and fails on leaf.u.
forget_point_pop_default(t, index) ==
    IF index \notin DOMAIN t.leaves
    THEN Tree(t.heap, t.root, t.leaves, "AttributeError")
    ELSE forget_leaf(t.heap, t.root, Pop(t.leaves, index), t.leaves[index])

\* forget_point(index), index not a Leaf instance
forget_point(t, index) ==
    IF index \notin DOMAIN t.leaves
    THEN Tree(t.heap, t.root, t.leaves, "KeyError")
    ELSE forget_leaf(t.heap, t.root, Pop(t.leaves, index), t.leaves[index])

\* forget_point(leaf), leaf a Leaf instance
forget_point_leaf(t, leaf) ==
    LET index == t.heap[leaf].i IN
    IF index \notin DOMAIN t.leaves
    THEN Tree(t.heap, t.root, t.leaves, "KeyError")
    ELSE forget_leaf(t.heap, t.root, Pop(t.leaves, index), leaf)

\* ------------------------------------------------------------- queries
\* _query(point, node): the Leaf the descent by point[node.q] <= node.p ends at.
RECURSIVE query(_, _, _)
query(h, point, node) ==
    IF h[node].kind = "Leaf" THEN node
    ELSE IF point[h[node].q + 1] <= h[node].p
         THEN query(h, point, h[node].l)
         ELSE query(h, point, h[node].r)

\* disp(leaf) for a Leaf instance: [err, value].
disp(h, leaf) ==
    LET parent == h[leaf].u IN
    IF parent = None THEN [err |-> "AttributeError", value |-> 0]
    ELSE LET sibling == IF leaf = h[parent].l THEN h[parent].r ELSE h[parent].l IN
         IF sibling = None THEN [err |-> "AttributeError", value |-> 0]
         ELSE [err |-> "none", value |-> h[sibling].n]

\* A quotient displacement / num_deleted, kept exact as <<numerator, denominator>>
\* with a positive denominator.
Quotient(a, b) == IF b < 0 THEN <<0 - a, 0 - b>> ELSE <<a, b>>
Less(f, g) == f[1] * g[2] < g[1] * f[2]
Same(f, g) == f[1] * g[2] = g[1] * f[2]
Max(fs) == CHOOSE f \in fs : \A g \in fs : ~Less(f, g)

\* The loop of codisp: iters passes are left, results holds the quotients so far.
RECURSIVE codisp_loop(_, _, _, _)
codisp_loop(h, node, iters, results) ==
    IF iters <= 0 \/ h[node].u = None
    THEN IF results = {} THEN [err |-> "ValueError", value |-> <<0, 1>>]
         ELSE [err |-> "none", value |-> Max(results)]
    ELSE LET parent == h[node].u
             sibling == IF node = h[parent].l THEN h[parent].r ELSE h[parent].l
         IN  IF sibling = None THEN [err |-> "AttributeError", value |-> <<0, 1>>]
             ELSE IF h[node].n = 0 THEN [err |-> "ZeroDivisionError", value |-> <<0, 1>>]
             ELSE codisp_loop(h, parent, iters - 1,
                              results \cup {Quotient(h[sibling].n, h[node].n)})

\* codisp(leaf) for a Leaf instance: [err, value].
codisp(h, leaf) == codisp_loop(h, leaf, h[leaf].d, {})

\* ---------------------------------------------------------- construction
\* _count_all_top_down(node)
RECURSIVE count_all_top_down(_, _)
count_all_top_down(h, node) ==
    IF h[node].kind = "Branch"
    THEN LET hl == IF h[node].l # None THEN count_all_top_down(h, h[node].l) ELSE h
             hr == IF hl[node].r # None THEN count_all_top_down(hl, hl[node].r) ELSE hl
         IN  [hr EXCEPT ![node].n = hr[hr[node].l].n + hr[hr[node].r].n]
    ELSE h

\* np.random.uniform(xmin, xmax) is xmin + (xmax - xmin) * u in float64: for
\* u = 1 - 2^-53 the sum rounds up to xmax itself when a power of two lies in
\* [xmax - xmin, xmax).
RoundsToHigh(xmin, xmax) == xmin < xmax /\ NextPow2(xmax - xmin) < xmax

\* The (q, p) pairs _cut can draw for the active subset S of X: a dimension of
\* positive span (probability l[q] > 0) and a value of [xmin[q], xmax[q]), or
\* xmax[q] where the draw rounds onto it.
cut_draws(X, S) ==
    {c \in [q : Dims, p : 0..(Scale * MaxCoord)] :
        LET xs == {X[i][c.q + 1] : i \in S} IN
        /\ SetMin(xs) < SetMax(xs)
        /\ SetMin(xs) <= c.p
        /\ \/ c.p < SetMax(xs)
           \/ c.p = SetMax(xs) /\ RoundsToHigh(SetMin(xs), SetMax(xs))}

\* _mktree(X, S, parent, side, depth): every heap it can leave, one per sequence
\* of cuts; ok is FALSE where the call raises (np.random.choice on a NaN
\* distribution when S has zero span, np.asscalar on an empty selection).  A
\* cut at xmax leaves S1 = S and S2 empty: the call on S1 returns or exceeds
\* the recursion limit, and np.asscalar of line 84 raises on the empty S2.
RECURSIVE mktree(_, _, _, _, _, _)
mktree(h, X, S, parent, side, depth0) ==
    LET depth == depth0 + 1
        draws == cut_draws(X, S)
        Side(hh, S1, branch, sd) ==
            IF Cardinality(S1) > 1 THEN mktree(hh, X, S1, branch, sd, depth)
            ELSE IF S1 = {} THEN {[heap |-> hh, ok |-> FALSE]}
            ELSE LET i == CHOOSE i \in S1 : TRUE
                     leaf == Alloc(hh)
                     h1 == [hh EXCEPT ![leaf] = Leaf(i, depth, branch, X[i])]
                 IN  {[heap |-> SetChild(h1, branch, sd, leaf), ok |-> TRUE]}
    IN  IF draws = {} THEN {[heap |-> h, ok |-> FALSE]}
        ELSE UNION {
               LET S1 == {i \in S : X[i][c.q + 1] <= c.p}
                   S2 == S \ S1
                   branch == Alloc(h)
                   h1 == [h EXCEPT ![branch] = Branch(c.q, c.p, None, None, parent, 0)]
                   h2 == IF parent # None THEN SetChild(h1, parent, side, branch) ELSE h1
               IN  IF S2 = {} THEN {[heap |-> h2, ok |-> FALSE]}
                   ELSE UNION {
                     IF ~a.ok THEN {a} ELSE Side(a.heap, S2, branch, "r")
                     : a \in Side(h2, S1, branch, "l") }
               : c \in draws }

\* RCTree(X): the trees the constructor can return for the n x NDim array X.
\* The first node allocated is the root; self.leaves[i] is the leaf made for row i.
RootId == SetMin(NodeIds)

RCTree(X) ==
    { LET h == count_all_top_down([b.heap EXCEPT ![RootId].u = None], RootId) IN
      Tree(h, RootId,
           [i \in DOMAIN X |-> CHOOSE k \in NodeIds : h[k].kind = "Leaf" /\ h[k].i = i],
           "none")
      : b \in {b \in mktree(EmptyHeap, X, DOMAIN X, None, "root", 0) : b.ok} }

\* The exceptions RCTree(X) can end with.  A subset of zero span makes l / l.sum()
\* NaN: np.random.choice raises ValueError, or (numpy before 1.16, which does not
\* check for NaN) returns 0, and then the cut leaves S2 empty: np.asscalar raises
\* ValueError on a single point, _mktree recurses on the same S without end on
\* several identical points.  A cut drawn at xmax (see cut_draws) leaves S2 empty
\* in the same way, for rows that are all distinct too.
RCTreeErrors(X) ==
    IF \A b \in mktree(EmptyHeap, X, DOMAIN X, None, "root", 0) : b.ok THEN {}
    ELSE IF Cardinality(DOMAIN X) = 1 THEN {"ValueError"}
    ELSE {"ValueError", "RecursionError"}

Datasets == UNION {[0..(n - 1) -> Points] : n \in 2..MaxInit}

\* Every array a caller can pass: one row, or rows that repeat, included.
AllDatasets == UNION {[0..(n - 1) -> Points] : n \in 1..MaxInit}

\* ------------------------------------------------------ garbage collection
\* A caller keeps the Leaf objects it has obtained (from tree.leaves, from
\* insert_point or by walking the links), so a Leaf lives on after the tree has
\* dropped it, and with it everything its links reach.  An object that neither
\* the tree nor any Leaf reaches is freed.
RECURSIVE Closure(_, _)
Closure(h, S) ==
    LET next == (S \cup {h[k].l : k \in S} \cup {h[k].r : k \in S}
                   \cup {h[k].u : k \in S}) \ {None}
    IN  IF next = S THEN S ELSE Closure(h, next)

LeafCells(h) == {k \in NodeIds : h[k].kind = "Leaf"}

Live(t) == Closure(t.heap, {t.root} \cup LeafValues(t.leaves) \cup LeafCells(t.heap))

Collect(t) ==
    LET live == Live(t) IN
    [t EXCEPT !.heap = [k \in NodeIds |-> IF k \in live THEN t.heap[k] ELSE FreeNode]]

\* ------------------------------------------------------------------ state
\* data is the array X the constructor was given; calls and inserts count the
\* calls made since and the insert_point calls among them.
VARIABLES heap, root, leaves, last, calls, inserts, data

vars == <<heap, root, leaves, last, calls, inserts, data>>

Now == Tree(heap, root, leaves, "none")

\* The last call: its name, the index it was given (for a Leaf instance, the
\* leaf's i), the Leaf it concerned (returned by insert_point, looked up or
\* passed to forget_point; None if there is none), the node insert_point's loop
\* broke at with the cut (q, p) it had drawn there (None, 0, 0 if it did not
\* break) and the exception the call raised.
Call(op, index, leaf, at, q, p, err) ==
    [op |-> op, index |-> index, leaf |-> leaf, at |-> at, q |-> q, p |-> p, err |-> err]

Becomes(t) ==
    /\ calls' = calls + 1
    /\ data' = data
    /\ heap' = t.heap
    /\ root' = t.root
    /\ leaves' = t.leaves

Init ==
    \E X \in Datasets : \E t \in RCTree(X) :
        /\ heap = t.heap
        /\ root = t.root
        /\ leaves = t.leaves
        /\ last = Call("RCTree", 0, None, None, 0, 0, "none")
        /\ calls = 0
        /\ inserts = 0
        /\ data = X

\* tree.insert_point(point, index)
InsertPoint ==
    /\ calls < MaxCalls
    /\ inserts < MaxInserts
    /\ inserts' = inserts + 1
    /\ \E point \in Points, index \in Indices :
        \E o \in {[x EXCEPT !.passed = {}] : x \in insert_outcomes(Now, point)} :
            \E t \in {Collect(insert_point(Now, point, index, o))} :
                /\ Becomes(t)
                /\ last' = Call("insert_point", index,
                                IF t.err = "none" THEN t.leaves[index] ELSE None,
                                IF o.status = "splice" THEN o.node ELSE None,
                                o.q, o.p, t.err)

\* tree.forget_point(index)
ForgetPoint ==
    /\ calls < MaxCalls
    /\ inserts' = inserts
    /\ \E index \in Indices :
        \E t \in {Collect(forget_point(Now, index))} :
            /\ Becomes(t)
            /\ last' = Call("forget_point", index,
                            IF index \in DOMAIN leaves THEN leaves[index] ELSE None,
                            None, 0, 0, t.err)

\* The Leaf objects a caller can pass: those of tree.leaves, those it reaches
\* by the l, r and u links from tree.root, and those it kept from before the
\* tree dropped them.
HeldLeaves == LeafCells(heap)

\* tree.forget_point(leaf), leaf a Leaf instance
ForgetPointLeaf ==
    /\ calls < MaxCalls
    /\ inserts' = inserts
    /\ \E leaf \in HeldLeaves :
        \E t \in {Collect(forget_point_leaf(Now, leaf))} :
            /\ Becomes(t)
            /\ last' = Call("forget_point_leaf", heap[leaf].i, leaf, None, 0, 0, t.err)

Next == InsertPoint \/ ForgetPoint \/ ForgetPointLeaf

Spec == Init /\ [][Next]_vars

\* ------------------------------------------------- a tree already in service
\* The trees one call can leave, over every draw.
CallOn(t, c) ==
    IF c.op = "forget_point" THEN {Collect(forget_point(t, c.index))}
    ELSE {Collect(insert_point(t, c.point, c.index, o)) :
            o \in {[x EXCEPT !.passed = {}] : x \in insert_outcomes(t, c.point)}}

\* The trees the first k calls of Warmup can leave.
RECURSIVE Replay(_)
Replay(k) ==
    IF k = 0 THEN RCTree(WarmupData)
    ELSE UNION {CallOn(t, Warmup[k]) : t \in Replay(k - 1)}

\* A tree in service: Warmup has been replayed, and one more call, an
\* insert_point or a forget_point, is left to make.
InitService ==
    \E t \in Replay(Len(Warmup)) :
        /\ heap = t.heap
        /\ root = t.root
        /\ leaves = t.leaves
        /\ last = Call(Warmup[Len(Warmup)].op, Warmup[Len(Warmup)].index,
                       None, None, 0, 0, t.err)
        /\ calls = MaxCalls - 1
        /\ inserts = MaxInserts - 1
        /\ data = WarmupData

SpecService == InitService /\ [][Next]_vars

\* ------------------------------------------------- the constructor as a step
\* Before RCTree(X) is called there is no tree.
InitBuild ==
    /\ data \in AllDatasets
    /\ heap = EmptyHeap
    /\ root = None
    /\ leaves = << >>
    /\ last = Call("new", 0, None, None, 0, 0, "none")
    /\ calls = 0
    /\ inserts = 0

\* tree = RCTree(X): a tree, or an exception and no tree.
Construct ==
    /\ last.op = "new"
    /\ \/ \E t \in RCTree(data) :
             /\ heap' = t.heap
             /\ root' = t.root
             /\ leaves' = t.leaves
             /\ last' = Call("RCTree", 0, None, None, 0, 0, "none")
       \/ \E e \in RCTreeErrors(data) :
             /\ heap' = heap
             /\ root' = root
             /\ leaves' = leaves
             /\ last' = Call("RCTree", 0, None, None, 0, 0, e)
    /\ calls' = calls
    /\ inserts' = inserts
    /\ data' = data

NextBuild == Construct

SpecBuild == InitBuild /\ [][NextBuild]_vars

\* ------------------------------------------------- properties of a tree
Before == Tree(heap, root, leaves, "none")
After == Tree(heap', root', leaves', "none")

\* The nodes reachable from node by l and r links, node included.
RECURSIVE Below(_, _)
Below(h, node) ==
    IF h[node].kind = "Branch"
    THEN {node} \cup (IF h[node].l # None THEN Below(h, h[node].l) ELSE {})
                \cup (IF h[node].r # None THEN Below(h, h[node].r) ELSE {})
    ELSE {node}

TreeLeaves(t) == {k \in Below(t.heap, t.root) : t.heap[k].kind = "Leaf"}
TreeBranches(t) == {k \in Below(t.heap, t.root) : t.heap[k].kind = "Branch"}

\* The number of u links from node up to the root; -1 if they do not lead there.
RECURSIVE UpLinks(_, _, _, _)
UpLinks(t, node, steps, fuel) ==
    IF node = t.root THEN steps
    ELSE IF node = None \/ fuel = 0 THEN -1
    ELSE UpLinks(t, t.heap[node].u, steps + 1, fuel - 1)

CountInvariant(t) ==
    /\ \A b \in TreeBranches(t) :
          t.heap[b].n = t.heap[t.heap[b].l].n + t.heap[t.heap[b].r].n
    /\ t.heap[t.root].n = Cardinality(TreeLeaves(t))

DepthInvariant(t) ==
    \A k \in TreeLeaves(t) : t.heap[k].d = UpLinks(t, k, 0, MaxNodes)

LeafIndexInvariant(t) ==
    /\ DOMAIN t.leaves = {t.heap[k].i : k \in TreeLeaves(t)}
    /\ \A i \in DOMAIN t.leaves :
          t.leaves[i] \in TreeLeaves(t) /\ t.heap[t.leaves[i]].i = i

\* The subtrees at a (in heap h1) and b (in heap h2) have the same shape, cuts,
\* counts, points, indices and depths.
RECURSIVE SameSubtree(_, _, _, _)
SameSubtree(h1, a, h2, b) ==
    /\ h1[a].kind = h2[b].kind
    /\ h1[a].n = h2[b].n
    /\ IF h1[a].kind = "Branch"
       THEN /\ h1[a].q = h2[b].q /\ h1[a].p = h2[b].p
            /\ SameSubtree(h1, h1[a].l, h2, h2[b].l)
            /\ SameSubtree(h1, h1[a].r, h2, h2[b].r)
       ELSE h1[a].i = h2[b].i /\ h1[a].d = h2[b].d /\ h1[a].x = h2[b].x

Unchanged == heap' = heap /\ root' = root /\ leaves' = leaves

\* ----------------------------------------------------------------- claims

\* C1: after construction and any sequence of insert_point and forget_point
\* calls, every Branch reachable from the root has n = l.n + r.n, and root.n
\* is the number of leaves the tree holds.
C1_CountInvariant == CountInvariant(Before)

\* C2: after construction and any sequence of insert_point and forget_point
\* calls, every Leaf of the tree has d equal to the number of u links from it
\* up to the root.
C2_DepthInvariant == DepthInvariant(Before)

\* C3: after construction and every insert_point and forget_point, the keys of
\* tree.leaves are exactly the indices of the leaves reachable from the root,
\* and each key maps to the reachable Leaf carrying that index.
C3_LeafIndexInvariant == LeafIndexInvariant(Before)

\* C4: from every reachable tree, insert_point(P, k) with k not in tree.leaves
\* followed by forget_point(k) completes without error and gives back the same
\* root, structure, counts and depths, wherever the insertion spliced.
C4_InsertForgetInverse ==
    calls + 2 <= MaxCalls =>
        \A point \in Points, index \in Indices \ DOMAIN leaves :
            \A o \in insert_outcomes(Before, point) :
                LET t1 == insert_point(Before, point, index, o)
                    t2 == forget_point(t1, index)
                IN  /\ t1.err = "none"
                    /\ t2.err = "none"
                    /\ t2.root = root
                    /\ t2.leaves = leaves
                    /\ SameSubtree(t2.heap, t2.root, heap, root)

\* C5: insert_point with an index that is already a key of tree.leaves fails
\* with DuplicateKey and changes nothing.
C5_DuplicateKey ==
    [][(last'.op = "insert_point" /\ last'.index \in DOMAIN leaves)
          => (last'.err = "DuplicateKey" /\ Unchanged)]_vars

\* C6: forget_point with an index that is not a key of tree.leaves (also one
\* forgotten earlier) raises KeyError and leaves the root, the leaves dict and
\* every link, count and depth unchanged.
C6_ForgetUnknownIndex ==
    [][(last'.op = "forget_point" /\ last'.index \notin DOMAIN leaves)
          => (last'.err = "KeyError" /\ Unchanged)]_vars

\* Index 0 is a key after every construction: a KeyError for it means it was
\* forgotten by an earlier call.
C6_Witness ==
    last.op = "forget_point" /\ last.index = 0 /\ last.err = "KeyError"
        /\ 0 \notin DOMAIN leaves

\* C7: forget_point on the tree's only remaining leaf, a leaf with no parent,
\* fails with an error, and the leaf stays registered in tree.leaves and the
\* root stays what it was.
C7_ForgetSoleLeaf ==
    [][(/\ last'.op \in {"forget_point", "forget_point_leaf"}
        /\ DOMAIN leaves = {last'.index}
        /\ leaves[last'.index] = last'.leaf
        /\ heap[last'.leaf].u = None)
          => (/\ last'.err # "none"
              /\ last'.index \in DOMAIN leaves'
              /\ leaves'[last'.index] = last'.leaf
              /\ root' = root)]_vars

\* C8: every insert_point or forget_point call either completes with the count,
\* depth and leaf-index invariants holding, or raises having changed nothing.
C8_Atomicity ==
    [][IF last'.err = "none"
       THEN CountInvariant(After) /\ DepthInvariant(After) /\ LeafIndexInvariant(After)
       ELSE Unchanged]_vars

\* C9: forget_point on a leaf whose parent is the root Branch completes without
\* error: the sibling becomes tree.root with u = None, the index leaves
\* tree.leaves, and every leaf of the sibling subtree has its depth lowered by 1.
C9_ForgetUnderRoot ==
    [][(/\ last'.op = "forget_point"
        /\ last'.index \in DOMAIN leaves
        /\ heap[last'.leaf].u = root
        /\ heap[root].u = None)
          => LET leaf == last'.leaf
                 sibling == IF heap[root].l = leaf THEN heap[root].r ELSE heap[root].l
             IN  /\ last'.err = "none"
                 /\ root' = sibling
                 /\ heap'[sibling].u = None
                 /\ last'.index \notin DOMAIN leaves'
                 /\ \A k \in SeqRange(traverse(heap, sibling)) :
                       heap'[k].d = heap[k].d - 1]_vars

\* C10: when insert_point, given a new index, splices at the root because the
\* cut it drew lies outside the root's bounding box, the new Branch becomes
\* tree.root with u = None, its children are the new Leaf and the former root,
\* the new Leaf has depth 1, and root.n is the former root count plus 1.
C10_SpliceAtRoot ==
    [][(/\ last'.op = "insert_point"
        /\ last'.index \notin DOMAIN leaves
        /\ last'.at = root
        /\ LET bbox == get_bbox(heap, root) IN
              last'.p < bbox.lo[last'.q + 1] \/ last'.p > bbox.hi[last'.q + 1])
          => (/\ last'.err = "none"
              /\ heap'[root'].kind = "Branch"
              /\ heap'[root'].u = None
              /\ {heap'[root'].l, heap'[root'].r} = {last'.leaf, root}
              /\ heap'[last'.leaf].d = 1
              /\ heap'[root'].n = heap[root].n + 1)]_vars

\* ------------------------------------------------------ construction claims
Rows == DOMAIN data
Distinct == \A i, j \in Rows : i # j => data[i] # data[j]
Constructed == last.op = "RCTree"

\* C11: RCTree(X) on n >= 2 pairwise distinct points gives, whatever the cuts,
\* n Leaves and n - 1 Branches, tree.leaves keyed by 0..n-1 with leaf i holding
\* X[i], root.u = None, root.n = n, and each leaf's d its distance from the root.
C11_Construction ==
    (Constructed /\ Cardinality(Rows) >= 2 /\ Distinct)
        => /\ last.err = "none"
           /\ Cardinality(TreeLeaves(Before)) = Cardinality(Rows)
           /\ Cardinality(TreeBranches(Before)) = Cardinality(Rows) - 1
           /\ DOMAIN leaves = Rows
           /\ \A i \in Rows :
                 /\ leaves[i] \in TreeLeaves(Before)
                 /\ heap[leaves[i]].i = i
                 /\ heap[leaves[i]].x = data[i]
                 /\ heap[leaves[i]].d = UpLinks(Before, leaves[i], 0, MaxNodes)
           /\ heap[root].u = None
           /\ heap[root].n = Cardinality(Rows)

\* C12: RCTree(X) on a single point succeeds and gives a tree whose root is a
\* Leaf with index 0 and no parent, with no Branch anywhere.
C12_SinglePoint ==
    (Constructed /\ Cardinality(Rows) = 1)
        => /\ last.err = "none"
           /\ root # None
           /\ heap[root].kind = "Leaf"
           /\ heap[root].i = 0
           /\ heap[root].u = None
           /\ \A k \in NodeIds : heap[k].kind # "Branch"

\* C20: RCTree(X) on an array that holds identical points does not fail: the
\* recursion ends and the tree has exactly one Leaf per row.
C20_IdenticalPoints ==
    (Constructed /\ Cardinality(Rows) >= 2 /\ ~Distinct)
        => /\ last.err = "none"
           /\ root # None
           /\ Cardinality(TreeLeaves(Before)) = Cardinality(Rows)
           /\ DOMAIN leaves = Rows

\* ------------------------------------------------------------ query claims
Registered == {leaves[i] : i \in DOMAIN leaves}

\* C13: in every reachable state disp(leaf) >= 1 for every leaf of tree.leaves
\* that has a parent.
C13_DispPositive ==
    \A leaf \in Registered :
        heap[leaf].u # None
            => disp(heap, leaf).err = "none" /\ disp(heap, leaf).value >= 1

\* The quotients sibling.n / node.n of every level from node up to the node
\* that has no parent.
RECURSIVE Levels(_, _, _)
Levels(h, node, fuel) ==
    IF fuel = 0 \/ h[node].u = None THEN {}
    ELSE LET parent == h[node].u
             sibling == IF node = h[parent].l THEN h[parent].r ELSE h[parent].l
         IN  {Quotient(h[sibling].n, h[node].n)} \cup Levels(h, parent, fuel - 1)

\* C14: in every reachable state, for every leaf of tree.leaves that has a
\* parent, codisp(leaf) returns the maximum of sibling.n / node.n over every
\* level from the leaf up to the child of the root, so at least disp(leaf) / leaf.n.
C14_CodispAllLevels ==
    \A leaf \in Registered :
        heap[leaf].u # None
            => /\ codisp(heap, leaf).err = "none"
               /\ Same(codisp(heap, leaf).value, Max(Levels(heap, leaf, MaxNodes)))
               /\ ~Less(codisp(heap, leaf).value,
                        Quotient(disp(heap, leaf).value, heap[leaf].n))

\* ----------------------------------------------------- forget_point claims
Forgets == last'.op \in {"forget_point", "forget_point_leaf"}

\* The other child of leaf's parent, in the state before the step.
SiblingOf(leaf) ==
    LET parent == heap[leaf].u IN
    IF heap[parent].l = leaf THEN heap[parent].r ELSE heap[parent].l

\* C15: a forget_point that completes lowers d by exactly 1 on every leaf of the
\* sibling subtree it splices in, and leaves d as it was on every other
\* remaining leaf, the leaves under the grandparent's other child included.
C15_ForgetDepths ==
    [][(Forgets /\ last'.err = "none")
          => \A k \in LeafValues(leaves') :
                heap'[k].d = heap[k].d -
                    (IF k \in SeqRange(traverse(heap, SiblingOf(last'.leaf))) THEN 1 ELSE 0)]_vars

\* ----------------------------------------------------- insert_point claims
\* C16: from every reachable state with a registered leaf, the descent loop of
\* insert_point, bounded by the largest leaf depth plus one, ends at a break
\* with the splice position chosen: it never runs out of iterations.
C16_LoopDecides ==
    [][(last'.op = "insert_point" /\ DOMAIN leaves # {})
          => ~(last'.err = "UnboundLocalError" /\ last'.at = None)]_vars

\* The bounding box of node before the step, in dimension q: <<min, max>>.
Side(node, q) == <<get_bbox(heap, node).lo[q + 1], get_bbox(heap, node).hi[q + 1]>>

\* C17: in every state a call can start from, insert_point stops at
\* a visited node exactly when the cut is strictly below the minimum (new leaf
\* on the left) or strictly above the maximum (new leaf on the right) of the
\* node's bounding box in the cut dimension; on a cut equal to a boundary it
\* does not splice but descends.
C17_StrictlyOutside ==
    calls < MaxCalls => \A point \in Points : \A o \in insert_outcomes(Before, point) :
        /\ o.status = "splice"
              => /\ o.p < Side(o.node, o.q)[1] \/ o.p > Side(o.node, o.q)[2]
                 /\ o.where = "l" <=> o.p < Side(o.node, o.q)[1]
        /\ \A c \in o.passed :
              Side(c.node, c.q)[1] <= c.p /\ c.p <= Side(c.node, c.q)[2]

\* C19: in every reachable state, query(L.x) for a leaf L of tree.leaves ends
\* at a leaf holding a point equal to L.x; that is, every Branch b under the
\* root has the leaves of b.l at x[b.q] <= b.p and those of b.r at x[b.q] > b.p.
C19_QueryRoundTrip ==
    /\ \A leaf \in Registered :
          heap[query(heap, heap[leaf].x, root)].x = heap[leaf].x
    /\ \A b \in TreeBranches(Before) :
          /\ \A k \in SeqRange(traverse(heap, heap[b].l)) :
                heap[k].x[heap[b].q + 1] <= heap[b].p
          /\ \A k \in SeqRange(traverse(heap, heap[b].r)) :
                heap[k].x[heap[b].q + 1] > heap[b].p

\* C18: forget_point on a registered leaf that has a grandparent removes that
\* Leaf and its parent Branch and nothing else: the sibling takes the parent's
\* place under the grandparent with u = grandparent, the index leaves
\* tree.leaves, the root holds exactly one leaf fewer, and every other node
\* keeps its children, its parent, its cut and its point.
C18_ForgetSplice ==
    [][(/\ Forgets
        /\ last'.index \in DOMAIN leaves
        /\ leaves[last'.index] = last'.leaf
        /\ heap[last'.leaf].u # None
        /\ heap[heap[last'.leaf].u].u # None)
          => LET leaf == last'.leaf
                 parent == heap[leaf].u
                 grandparent == heap[parent].u
                 sibling == SiblingOf(leaf)
             IN  /\ last'.err = "none"
                 /\ heap[grandparent].l = parent => heap'[grandparent].l = sibling
                 /\ heap[grandparent].r = parent => heap'[grandparent].r = sibling
                 /\ heap'[sibling].u = grandparent
                 /\ last'.index \notin DOMAIN leaves'
                 /\ TreeLeaves(After) = TreeLeaves(Before) \ {leaf}
                 /\ TreeBranches(After) = TreeBranches(Before) \ {parent}
                 /\ \A k \in Below(heap, root) \ {leaf, parent} :
                       /\ heap'[k].kind = heap[k].kind
                       /\ heap'[k].x = heap[k].x /\ heap'[k].i = heap[k].i
                       /\ heap'[k].q = heap[k].q /\ heap'[k].p = heap[k].p
                       /\ k # sibling => heap'[k].u = heap[k].u
                       /\ k # grandparent =>
                             heap'[k].l = heap[k].l /\ heap'[k].r = heap[k].r]_vars

====
